---------------------------- MODULE Spec2Model ----------------------------
(***************************************************************************)
(* A model of lib/blockchain.py, the SPV header-chain verifier of          *)
(* Electrum: the flat header file, the retarget arithmetic, the walk-back  *)
(* of get_chain, verify_chain and the commit loop of run, fed by           *)
(* untrusted peers through per-peer queues.                                *)
(*                                                                         *)
(* Numbers wider than 31 bits (targets, digests as numbers) are kept as    *)
(* sequences of base-256 digits, least significant first, so that the      *)
(* code's unbounded integer arithmetic is reproduced exactly.              *)
(***************************************************************************)
EXTENDS Integers, Sequences, FiniteSets, TLC

(***************************************************************************)
(* Program constants                                                       *)
(***************************************************************************)
HeaderSize == 80
EpochLen == 2016
GenesisBits == 486604799
nTargetTimespan == 1209600
MM == 16777216
SmallMantissa == 32768
SignLimit == 8388608

(***************************************************************************)
(* Bounds of the model                                                     *)
(***************************************************************************)
NumPeers == 2
MaxQueue == 1
MaxChain == 3

\* Python's None, and an exception that leaves the function
None == [tag |-> "None"]
Crash == [tag |-> "Crash"]

Max(a, b) == IF a >= b THEN a ELSE b
Min(a, b) == IF a <= b THEN a ELSE b

(***************************************************************************)
(* Unbounded naturals: base-256 digits, least significant first, no        *)
(* leading (most significant) zero digit; zero is the empty sequence.      *)
(***************************************************************************)
RECURSIVE BnNorm(_)
BnNorm(ds) ==
    IF ds = <<>> THEN <<>>
    ELSE IF ds[Len(ds)] = 0 THEN BnNorm(SubSeq(ds, 1, Len(ds) - 1))
    ELSE ds

RECURSIVE BnFromInt(_)
BnFromInt(n) == IF n = 0 THEN <<>> ELSE <<n % 256>> \o BnFromInt(n \div 256)

BnShift(ds, k) == IF ds = <<>> THEN <<>> ELSE [j \in 1..k |-> 0] \o ds

RECURSIVE BnMulSmallC(_, _, _)
BnMulSmallC(ds, m, carry) ==
    IF ds = <<>> THEN BnFromInt(carry)
    ELSE LET v == ds[1] * m + carry
         IN  <<v % 256>> \o BnMulSmallC(Tail(ds), m, v \div 256)

BnMulSmall(ds, m) == BnNorm(BnMulSmallC(ds, m, 0))

\* Long division by a small divisor, most significant digit first;
\* the quotient is accumulated least significant first.
RECURSIVE BnDivSmallR(_, _, _, _)
BnDivSmallR(ds, k, rem, acc) ==
    IF ds = <<>> THEN acc
    ELSE LET v == rem * 256 + ds[Len(ds)]
         IN  BnDivSmallR(SubSeq(ds, 1, Len(ds) - 1), k, v % k, <<v \div k>> \o acc)

BnDivSmall(ds, k) == BnNorm(BnDivSmallR(ds, k, 0, <<>>))

RECURSIVE BnLessSameLen(_, _)
BnLessSameLen(a, b) ==
    IF a = <<>> THEN FALSE
    ELSE IF a[Len(a)] # b[Len(b)] THEN a[Len(a)] < b[Len(b)]
    ELSE BnLessSameLen(SubSeq(a, 1, Len(a) - 1), SubSeq(b, 1, Len(b) - 1))

BnLess(a, b) ==
    IF Len(a) # Len(b) THEN Len(a) < Len(b) ELSE BnLessSameLen(a, b)

\* a minimum that forgets the cap: always its second argument
BnSecond(a, b) == b

BnMin(a, b) == IF BnLess(b, a) THEN b ELSE a

RECURSIVE BnInc(_)
BnInc(ds) ==
    IF ds = <<>> THEN <<1>>
    ELSE IF Head(ds) < 255 THEN <<Head(ds) + 1>> \o Tail(ds)
    ELSE <<0>> \o BnInc(Tail(ds))

\* value of the (at most 3) most significant digits given most significant first
RECURSIVE BeToInt(_)
BeToInt(be) == IF be = <<>> THEN 0 ELSE BeToInt(SubSeq(be, 1, Len(be) - 1)) * 256 + be[Len(be)]

(***************************************************************************)
(* Digests.  bitcoin.Hash (double SHA-256) is stood for by a small mixing  *)
(* function of the six serialized fields.  A digest is kept as a code d    *)
(* in 0..HashSpace-1; as a 256-bit number it is                            *)
(*     (d \div MixMod) * 2^208 + (d % MixMod),                             *)
(* so that digests fall below, on and above max_target.                    *)
(***************************************************************************)
HashSpace == 268435456
MixMod == 4096

Hash(s) ==
    (  (s.prev_block_hash % 65536) * 31 + (s.prev_block_hash \div 65536) * 3
     + s.merkle_root * 8191 + (s.timestamp % 65536) * 127
     + (s.bits % 65536) * 13 + s.version * 7 + s.nonce ) % HashSpace

\* eval('0x' + _hash): the digest as a number
HashInt(d) ==
    BnNorm([j \in 1..26 |-> IF j = 1 THEN (d % MixMod) % 256
                            ELSE IF j = 2 THEN (d % MixMod) \div 256
                            ELSE 0] \o BnFromInt(d \div MixMod))

\* "0"*64
ZeroHash == 0

(***************************************************************************)
(* Header codec.  The 80 bytes of a serialized header are kept as the      *)
(* record of its six fields; block_height is not serialized.               *)
(***************************************************************************)
header_to_string(res) ==
    [version |-> res.version, prev_block_hash |-> res.prev_block_hash,
     merkle_root |-> res.merkle_root, timestamp |-> res.timestamp,
     bits |-> res.bits, nonce |-> res.nonce]

header_from_string(s) ==
    [version |-> s.version, prev_block_hash |-> s.prev_block_hash,
     merkle_root |-> s.merkle_root, timestamp |-> s.timestamp,
     bits |-> s.bits, nonce |-> s.nonce]

hash_header(header) == Hash(header_to_string(header))

\* the 80 zero bytes that fill a hole left by a write past the end of file
ZeroRec ==
    [version |-> 0, prev_block_hash |-> 0, merkle_root |-> 0, timestamp |-> 0,
     bits |-> 0, nonce |-> 0]

(***************************************************************************)
(* The header file: recs are its whole 80-byte records, tail the number    *)
(* of bytes after the last whole record (they are zero bytes wherever the  *)
(* model creates them), exists whether the path exists.                    *)
(***************************************************************************)
FileSize(f) == HeaderSize * Len(f.recs) + f.tail

\* read_header: None on a short read or a missing file, Crash when the
\* seek offset is negative (IOError out of f.seek).
read_header(f, block_height) ==
    IF ~f.exists THEN None
    ELSE IF block_height < 0 THEN Crash
    ELSE IF block_height < Len(f.recs) THEN header_from_string(f.recs[block_height + 1])
    ELSE None

\* 256^k for the k <= 4 bytes of a field
Pow256(k) == IF k = 0 THEN 1 ELSE IF k = 1 THEN 256 ELSE IF k = 2 THEN 65536 ELSE MM

\* f.seek(HeaderSize * at); f.write(data + extra zero bytes), extra <= 3:
\* the file grows to the end of the write when that lies past its end, a
\* hole reads as zero bytes, and zero bytes that end inside an old record
\* clear the low bytes of its first field.
WriteAt(f, at, data, extra) ==
    LET n    == Len(f.recs)
        end  == at + Len(data)
        size == Max(FileSize(f), HeaderSize * end + extra)
        newn == size \div HeaderSize
        recs == [j \in 1..newn |->
                   IF j > at /\ j <= end THEN data[j - at]
                   ELSE IF j > n THEN ZeroRec
                   ELSE IF j = end + 1 /\ extra > 0
                        THEN [f.recs[j] EXCEPT !.version =
                                 (f.recs[j].version \div Pow256(extra)) * Pow256(extra)]
                   ELSE f.recs[j]]
    IN  [exists |-> TRUE, recs |-> recs, tail |-> size % HeaderSize]

(***************************************************************************)
(* get_target                                                              *)
(***************************************************************************)
max_target == BnShift(BnFromInt(65535), 26)

\* lines 331-335; the model only feeds bits whose exponent is at least 3
bits_to_target(bits) ==
    LET a  == bits % MM
        a2 == IF a < SmallMantissa THEN a * 256 ELSE a
    IN  BnNorm(BnShift(BnFromInt(a2), (bits \div MM) - 3))

\* "%064X" % n: 32 bytes, most significant first
Hex64(n) == [j \in 1..32 |-> IF 33 - j <= Len(n) THEN n[33 - j] ELSE 0]

RECURSIVE StripZeros(_, _)
StripZeros(c, i) ==
    IF Len(c) >= 1 /\ c[1] = 0 THEN StripZeros(Tail(c), i - 1)
    ELSE [c |-> c, i |-> i]

\* lines 341-352
target_to_bits(new_target) ==
    LET s  == StripZeros(Tail(Hex64(new_target)), 31)
        c  == BeToInt(SubSeq(s.c, 1, Min(3, Len(s.c))))
    IN  IF s.c = <<>> THEN -1    \* eval('0x') does not parse
        ELSE IF c > SignLimit THEN (c \div 256) + MM * (s.i + 1)
        ELSE c + MM * s.i

get_target(f, index) ==
    IF index = 0 THEN [bits |-> GenesisBits, target |-> max_target]
    ELSE
      LET first == read_header(f, (index - 1) * EpochLen)
          last  == read_header(f, index * EpochLen - 1)
      IN  IF first = None \/ last = None \/ first = Crash \/ last = Crash THEN Crash
          ELSE
            LET span0 == last.timestamp - first.timestamp
                span1 == Max(span0, nTargetTimespan \div 4)
                nActualTimespan == Min(span1, nTargetTimespan * 4)
                target == bits_to_target(last.bits)
                new_target == BnMin(max_target,
                                    BnDivSmall(BnMulSmall(target, nActualTimespan),
                                               nTargetTimespan))
                new_bits == target_to_bits(new_target)
            IN  IF new_bits < 0 THEN Crash
                ELSE [bits |-> new_bits, target |-> new_target]

(***************************************************************************)
(* The headers of the model: the genesis header, a branch A on top of it   *)
(* that the stores and the honest peers follow, a competing branch B that  *)
(* forks off A, and headers that fail one check each.  The nonce is the    *)
(* one that gives the header the wanted digest, as mining does.            *)
(***************************************************************************)
Mine(prev, merkle, ts, bits, want) ==
    LET base == [version |-> 1, prev_block_hash |-> prev, merkle_root |-> merkle,
                 timestamp |-> ts, bits |-> bits, nonce |-> 0]
    IN  [base EXCEPT !.nonce = (want + HashSpace - Hash(base)) % HashSpace]

\* a header as a peer sends it, with the block_height the peer gives it
At(s, h) ==
    [block_height |-> h, version |-> s.version, prev_block_hash |-> s.prev_block_hash,
     merkle_root |-> s.merkle_root, timestamp |-> s.timestamp, bits |-> s.bits,
     nonce |-> s.nonce]

\* digests on and just above max_target
OnTarget == 65535 * MixMod
AboveTarget == 65535 * MixMod + 1

GenesisTime == 1231006505
Genesis == Mine(ZeroHash, 1, GenesisTime, GenesisBits, 1000)

\* branch A: one header per 600 s; its header at height h has digest 1000 + h
AEpoch0(h) ==
    IF h = 0 THEN Genesis
    ELSE Mine(1000 + h - 1, 10 + h, GenesisTime + 600 * h, GenesisBits, 1000 + h)

StoreOf(recs) == [exists |-> TRUE, recs |-> recs, tail |-> 0]

\* the bits of epoch 1 on branch A
ABits1 == get_target(StoreOf([j \in 1..EpochLen |-> AEpoch0(j - 1)]), 1).bits

A(h) ==
    IF h < EpochLen THEN AEpoch0(h)
    ELSE Mine(1000 + h - 1, 10 + h, GenesisTime + 600 * h, ABits1, 1000 + h)

\* branch B forking off A after height b: one header per 300 s, digest
\* 5000 + h at height h; in epoch 1 it carries the bits of branch A's epoch
B(b, h) ==
    Mine(IF h = b + 1 THEN 1000 + b ELSE 5000 + h - 1, 3000 + h,
         GenesisTime + 300 * h, IF h < EpochLen THEN GenesisBits ELSE ABits1,
         5000 + h)

\* successors of A(h - 1) that fail one check each: digest equal to the
\* target, digest one above the target, wrong bits
AEq(h) == Mine(1000 + h - 1, 7000 + h, GenesisTime + 600 * h, GenesisBits, OnTarget)
AGt(h) == Mine(1000 + h - 1, 8000 + h, GenesisTime + 600 * h, GenesisBits, AboveTarget)
ABadBits(h) ==
    Mine(1000 + h - 1, 9000 + h, GenesisTime + 600 * h, GenesisBits - 1, 9000 + h)

\* the bits of epoch 1 on branch B, whose last header of epoch 0 is B's
BBits1 ==
    get_target(StoreOf([j \in 1..EpochLen |->
                          IF j = EpochLen THEN B(EpochLen - 2, EpochLen - 1)
                          ELSE AEpoch0(j - 1)]), 1).bits

\* branch B in epoch 1 with the bits of its own epoch: digest 6000 + h
BOwn(h) ==
    Mine(IF h = EpochLen THEN 5000 + h - 1 ELSE 6000 + h - 1, 4000 + h,
         GenesisTime + 300 * h, BBits1, 6000 + h)

\* a chain rooted at another genesis header: it disagrees with every store
\* of branch A down to height 0
GenesisAlt == Mine(ZeroHash, 2, GenesisTime, GenesisBits, 1500)
C1 == Mine(1500, 3, GenesisTime + 600, GenesisBits, 1501)

A1 == A(1)
A2 == A(2)
A3 == A(3)
B1 == B(0, 1)
B2 == B(0, 2)
B3 == B(0, 3)

\* what the adversary may announce or answer with near the genesis header:
\* each header at its own height, and A3 under a height that is not its own
GenesisMenu ==
    { At(Genesis, 0), At(A1, 1), At(A2, 2), At(A3, 3), At(B1, 1), At(B2, 2),
      At(B3, 3), At(AEq(3), 3), At(AGt(3), 3), At(ABadBits(3), 3), At(A3, 4),
      At(GenesisAlt, 0), At(C1, 1) }

\* the files a start can find: none, or what an earlier run left
NoFile == [exists |-> FALSE, recs |-> <<>>, tail |-> 0]
GenesisFiles ==
    { NoFile, StoreOf(<<>>), StoreOf(<<Genesis>>), StoreOf(<<Genesis, A1>>),
      StoreOf(<<Genesis, A1, A2>>) }
\* the header archive behind headers_url
Archive == <<Genesis, A1>>

\* the same at the end of epoch 0: a store that ends at the last height of
\* the epoch, the next header of branch A, and the branch B that forks off
\* one height below the store's tip
AStore(n) == StoreOf([j \in 1..n |-> A(j - 1)])
EpochFiles == { AStore(EpochLen) }
EpochMenu ==
    { At(A(EpochLen), EpochLen),
      At(B(EpochLen - 2, EpochLen - 1), EpochLen - 1),
      At(B(EpochLen - 2, EpochLen), EpochLen),
      At(BOwn(EpochLen), EpochLen) }

\* a store that ends one height below the last height of epoch 0, and the
\* two headers of branch A that follow it
BoundaryFiles == { AStore(EpochLen - 1) }
BoundaryMenu == { At(A(EpochLen - 1), EpochLen - 1), At(A(EpochLen), EpochLen) }

\* stores of a full epoch 0 whose last header, as an unverified archive can
\* hold it, lies span seconds after the genesis header and carries bits
TStore(span, bits) ==
    StoreOf([j \in 1..EpochLen |->
               IF j = EpochLen
               THEN Mine(1000 + EpochLen - 2, 10 + EpochLen - 1, GenesisTime + span,
                         bits, 1000 + EpochLen - 1)
               ELSE AEpoch0(j - 1)])

\* the timespans around the two clamps and the target timespan, and below zero
Spans == { 0 - 600, 302400, 1209599, 1209600, 4838401 }
\* 0x1d00ffff, and 0x1c00ffff whose target is max_target / 256
LastBits == { GenesisBits, GenesisBits - MM }

TargetFiles == { TStore(sp, b) : sp \in Spans, b \in LastBits }

\* a first header of epoch 1 with the bits of epoch 0, at its height and
\* one height too high
T1 == Mine(1000 + EpochLen - 1, 10 + EpochLen, GenesisTime + 1209600 + 600,
           GenesisBits, 1000 + EpochLen)
TargetMenu == { At(T1, EpochLen), At(T1, EpochLen + 1) }

\* the bits that get_target gives after an epoch 0 of 604810 seconds (the
\* target halves: leading bytes 0x80000a, encoded as 0x1d008000), and stores
\* of a full epoch whose retarget meets each branch of the encoding
CompactBits == get_target(TStore(604810, GenesisBits), 1).bits
CompactFiles ==
    { TStore(604810, GenesisBits), TStore(1209600, GenesisBits),
      TStore(302400, GenesisBits), TStore(1209600, CompactBits) }

(***************************************************************************)
(* State                                                                   *)
(***************************************************************************)
VARIABLES
    file,              \* the blockchain_headers file
    height,            \* self.height, the exposed tip height
    local_height,      \* self.local_height
    running,           \* self.running
    pc,                \* where the verifier thread is
    scanIdx,           \* get_new_response: position in self.interfaces
    cur,               \* run: the interface i of the event being handled
    chain,             \* get_chain: chain (chain[1] is its variable header)
    requested_header,  \* get_chain: requested_header
    ci,                \* run: position of "for header in chain"
    vq,                \* per interface, the queue of channel 'verifier'
    gq,                \* per interface, the queue of channel 'get_header'
    pending,           \* per interface, the height asked for and not yet answered
    tip,               \* run: header, as get_new_response returned it
    menu,              \* the headers the adversary may send (fixed by Init)
    tick,              \* parity of the timed-out polls of retrieve_header
    file0,             \* history: the file when the current event was taken
    height0,           \* history: self.height when the current event was taken
    last,              \* history: how the handling of the event ended
    asked,             \* history: the get_header requests sent for the event
    flagged            \* history: the interfaces whose chain failed verify_chain

vars == <<file, height, local_height, running, pc, scanIdx, cur, chain,
          requested_header, ci, vq, gq, pending, tip, menu, tick, file0, height0,
          last, asked, flagged>>

Peers == 1..NumPeers
NoRequest == 0 - 1
GetHeaderMethod == "blockchain.block.get_header"

\* Interface 1 is a peer that may send anything of the menu; the others
\* follow branch A: they announce its headers and answer a request with the
\* header asked for.
Adversary == 1

\* records a peer can put on its 'verifier' queue
TipRecords(i) ==
    IF i = Adversary
    THEN {[result |-> h] : h \in menu} \cup {[result |-> None]}
    ELSE {[result |-> h] : h \in {m \in menu : m.block_height > 0
                                               /\ m = At(A(m.block_height), m.block_height)}}

HeaderRecord(h) == [error |-> FALSE, method |-> GetHeaderMethod, result |-> h]
ErrorRecord == [error |-> TRUE, method |-> GetHeaderMethod, result |-> None]

\* records a peer can put on its 'get_header' queue when asked for height q:
\* the adversary a menu header of that height or of the one below, an empty
\* result, an error or another method's response
AnswerRecords(i, q) ==
    IF i = Adversary
    THEN {HeaderRecord(h) : h \in {m \in menu : m.block_height \in {q, q - 1}}}
         \cup {HeaderRecord(None), ErrorRecord,
               [error |-> FALSE, method |-> "server.version", result |-> None]}
    ELSE IF q >= 0
    THEN {HeaderRecord(At(A(q), q))}
    ELSE {ErrorRecord}

(***************************************************************************)
(* set_local_height: the pair (local_height, height) it leaves             *)
(***************************************************************************)
set_local_height(f, lh, ht) ==
    IF f.exists /\ lh # (FileSize(f) \div HeaderSize) - 1
    THEN [local_height |-> (FileSize(f) \div HeaderSize) - 1,
          height |-> (FileSize(f) \div HeaderSize) - 1]
    ELSE [local_height |-> lh, height |-> ht]

\* save_header: the file it leaves
save_header(f, header) ==
    WriteAt(f, header.block_height, <<header_to_string(header)>>, 0)

(***************************************************************************)
(* verify_chain: "ok" (True), "fail" (False) or "crash" (an exception      *)
(* raised outside its try block)                                           *)
(***************************************************************************)
\* a verify_chain that accepts a digest equal to the target
RECURSIVE VerifyFromLe(_, _, _)
VerifyFromLe(f, prev_header, rest) ==
    IF rest = <<>> THEN "ok"
    ELSE
      LET header == Head(rest)
          t == get_target(f, header.block_height \div EpochLen)
      IN  IF prev_header = None \/ prev_header = Crash \/ t = Crash THEN "crash"
          ELSE IF /\ hash_header(prev_header) = header.prev_block_hash
                  /\ t.bits = header.bits
                  /\ ~BnLess(t.target, HashInt(hash_header(header)))
               THEN VerifyFromLe(f, header, Tail(rest))
          ELSE "fail"

RECURSIVE VerifyFrom(_, _, _)
VerifyFrom(f, prev_header, rest) ==
    IF rest = <<>> THEN "ok"
    ELSE
      LET header == Head(rest)
          t == get_target(f, header.block_height \div EpochLen)
      IN  IF prev_header = None \/ prev_header = Crash \/ t = Crash THEN "crash"
          ELSE IF /\ hash_header(prev_header) = header.prev_block_hash
                  /\ t.bits = header.bits
                  /\ BnLess(HashInt(hash_header(header)), t.target)
               THEN VerifyFrom(f, header, Tail(rest))
          ELSE "fail"

verify_chain(f, ch) ==
    VerifyFrom(f, read_header(f, ch[1].block_height - 1), ch)

(***************************************************************************)
(* Init: the object as __init__ leaves it, before run                      *)
(***************************************************************************)
InitWith(files, headers) ==
    /\ file \in files
    /\ menu = headers
    /\ local_height = set_local_height(file, 0, 0).local_height
    /\ height = set_local_height(file, 0, 0).height
    /\ running = FALSE
    /\ pc = "start"
    /\ scanIdx = 1
    /\ cur = 1
    /\ chain = <<>>
    /\ requested_header = FALSE
    /\ ci = 1
    /\ vq = [i \in Peers |-> <<>>]
    /\ gq = [i \in Peers |-> <<>>]
    /\ pending = [i \in Peers |-> NoRequest]
    /\ tip = None
    /\ tick = 0
    /\ file0 = file
    /\ height0 = height
    /\ last = "none"
    /\ asked = <<>>
    /\ flagged = {}

Init == InitWith(GenesisFiles, GenesisMenu)

\* the same object on a store that reaches the end of epoch 0
InitEpoch == InitWith(EpochFiles, EpochMenu)

\* the same object on a store that ends just below the end of epoch 0
InitBoundary == InitWith(BoundaryFiles, BoundaryMenu)

\* the same object on the stores that exercise the retarget
InitTarget == InitWith(TargetFiles, TargetMenu)
InitCompact == InitWith(CompactFiles, TargetMenu)

(***************************************************************************)
(* verify_chunk, callable on the object before the thread runs: index 0    *)
(* with a few headers followed by extra bytes.  It needs the file to exist *)
(* (open 'rb+'); a failed assert leaves the file alone.                    *)
(***************************************************************************)
RECURSIVE ChunkOk(_, _, _)
ChunkOk(previous_hash, t, data) ==
    IF data = <<>> THEN TRUE
    ELSE LET header == header_from_string(Head(data))
         IN  /\ previous_hash = header.prev_block_hash
             /\ t.bits = header.bits
             /\ BnLess(HashInt(hash_header(header)), t.target)
             /\ ChunkOk(hash_header(header), t, Tail(data))

save_chunk(f, index, data, extra) == WriteAt(f, index * EpochLen, data, extra)

\* the chunks offered: an index and a few headers
Chunks ==
    { <<0, <<Genesis>>>>, <<0, <<Genesis, A1>>>>, <<0, <<Genesis, A2>>>>,
      <<1, <<A(EpochLen)>>>> }
MaxExtra == 1

\* lines 177-184: the hash the first header must name, None when the header
\* before the chunk is not stored ("raise")
ChunkPrevHash(f, index) ==
    IF index = 0 THEN [hash |-> ZeroHash]
    ELSE IF read_header(f, index * EpochLen - 1) = None THEN None
    ELSE [hash |-> hash_header(read_header(f, index * EpochLen - 1))]

VerifyChunk(index, data, extra) ==
    /\ pc = "start"
    /\ file.exists
    /\ ChunkPrevHash(file, index) # None
    /\ get_target(file, index) # Crash
    /\ ChunkOk(ChunkPrevHash(file, index).hash, get_target(file, index), data)
    /\ file' = save_chunk(file, index, data, extra)
    /\ local_height' = set_local_height(file', local_height, height).local_height
    /\ height' = set_local_height(file', local_height, height).height
    /\ file0' = file'
    /\ height0' = height'
    /\ UNCHANGED <<running, pc, scanIdx, cur, chain, requested_header, ci, vq, gq,
                   pending, tip, menu, tick, last, asked, flagged>>

(***************************************************************************)
(* run, lines 359-366: init_headers_file, set_local_height, running = True *)
(***************************************************************************)
init_headers_file(f, downloaded) ==
    IF f.exists THEN f
    ELSE IF downloaded THEN StoreOf(Archive)
    ELSE StoreOf(<<>>)

Start(downloaded) ==
    /\ pc = "start"
    /\ file' = init_headers_file(file, downloaded)
    /\ local_height' = set_local_height(file', local_height, height).local_height
    /\ height' = set_local_height(file', local_height, height).height
    /\ running' = TRUE
    /\ pc' = "loop"
    /\ file0' = file'
    /\ height0' = height'
    /\ UNCHANGED <<scanIdx, cur, chain, requested_header, ci, vq, gq, pending,
                   tip, menu, tick, last, asked, flagged>>

\* stop()
Stop ==
    /\ pc \notin {"start", "stopped", "crashed"}
    /\ running
    /\ running' = FALSE
    /\ UNCHANGED <<file, height, local_height, pc, scanIdx, cur, chain,
                   requested_header, ci, vq, gq, pending, tip, menu, tick, file0, height0, last,
                   asked, flagged>>

(***************************************************************************)
(* The peers: tip notifications, and an answer to a request.  The thread   *)
(* reads the 'verifier' queues only in get_new_response, so a notification *)
(* that arrives during an extension is delivered once the thread is back   *)
(* there.                                                                   *)
(***************************************************************************)
PeersUp == pc \notin {"start", "stopped", "crashed"}

Notify(i, r) ==
    /\ pc = "scan"
    /\ Len(vq[i]) < MaxQueue
    /\ vq' = [vq EXCEPT ![i] = Append(@, r)]
    /\ UNCHANGED <<file, height, local_height, running, pc, scanIdx, cur, chain,
                   requested_header, ci, gq, pending, tip, menu, tick, file0, height0, last, asked,
                   flagged>>

Answer(i, r) ==
    /\ PeersUp
    /\ pending[i] # NoRequest
    /\ r \in AnswerRecords(i, pending[i])
    /\ Len(gq[i]) < MaxQueue
    \* the walk-back of the model ends at MaxChain headers: no further header
    /\ r.result # None => Len(chain) < MaxChain
    /\ gq' = [gq EXCEPT ![i] = Append(@, r)]
    /\ pending' = [pending EXCEPT ![i] = NoRequest]
    /\ UNCHANGED <<file, height, local_height, running, pc, scanIdx, cur, chain,
                   requested_header, ci, vq, tip, menu, tick, file0, height0, last, asked, flagged>>

(***************************************************************************)
(* run, line 368: while self.is_running()                                  *)
(***************************************************************************)
RunLoop ==
    /\ pc = "loop"
    /\ pc' = IF running THEN "scan" ELSE "stopped"
    /\ scanIdx' = 0
    \* the locals of the last turn are dead: they restart from their initial values
    /\ cur' = 1
    /\ chain' = <<>>
    /\ requested_header' = FALSE
    /\ ci' = 1
    /\ tip' = None
    /\ tick' = 0
    /\ file0' = file
    /\ height0' = height
    /\ last' = "none"
    /\ asked' = <<>>
    /\ UNCHANGED <<file, height, local_height, running, vq, gq, pending, menu,
                   flagged>>

(***************************************************************************)
(* get_new_response.  scanIdx = 0 is its "while self.is_running()": when   *)
(* the flag is down the function returns None and "i, header = None" in    *)
(* run raises.  scanIdx in Peers is one get_response(timeout=0); past the  *)
(* last interface comes sleep(1) and the while test again.                 *)
(***************************************************************************)
ScanCheck ==
    /\ pc = "scan"
    /\ scanIdx = 0
    /\ IF running THEN pc' = "scan" /\ scanIdx' = 1
       ELSE pc' = "crashed" /\ scanIdx' = 0
    /\ UNCHANGED <<file, height, local_height, running, cur, chain,
                   requested_header, ci, vq, gq, pending, tip, menu, tick, file0, height0, last,
                   asked, flagged>>

NextIdx(i) == IF i = NumPeers THEN 0 ELSE i + 1

\* a test that also takes a tip at the local height
WantedGe(header, lh) == header.block_height >= lh

\* run, line 374
Wanted(header, lh) == header.block_height > lh

Poll ==
    /\ pc = "scan"
    /\ scanIdx \in Peers
    /\ IF vq[scanIdx] = <<>>
       THEN /\ scanIdx' = NextIdx(scanIdx)
            /\ UNCHANGED <<pc, cur, chain, requested_header, vq, tip, menu, last>>
       ELSE /\ vq' = [vq EXCEPT ![scanIdx] = Tail(@)]
            /\ LET result == Head(vq[scanIdx]).result
               IN  IF result = None
                   THEN /\ scanIdx' = NextIdx(scanIdx)
                        /\ UNCHANGED <<pc, cur, chain, requested_header, tip, menu, last>>
                   ELSE /\ scanIdx' = 0
                        /\ cur' = scanIdx
                        /\ tip' = result
                        /\ IF Wanted(result, local_height)
                           THEN /\ pc' = "get_chain"
                                /\ chain' = <<result>>
                                /\ requested_header' = FALSE
                                /\ UNCHANGED last
                           ELSE /\ pc' = "loop"
                                /\ last' = "ignored"
                                /\ UNCHANGED <<chain, requested_header>>
    /\ UNCHANGED <<file, height, local_height, running, ci, gq, pending, menu, tick,
                   file0, height0, asked, flagged>>

(***************************************************************************)
(* get_chain.  Connect is lines 125-142 for the chain ch: read the stored  *)
(* predecessor of ch[1]; ask the same interface for it when it is absent   *)
(* or its hash differs; otherwise the chain is complete.                   *)
(***************************************************************************)
\* a walk-back that takes any stored predecessor as the connection
ConnectsAlways(previous_header, header) == TRUE

Connects(previous_header, header) ==
    hash_header(previous_header) = header.prev_block_hash

Connect(ch) ==
    LET header == ch[1]
        previous_header == read_header(file, header.block_height - 1)
    IN  /\ chain' = ch
        /\ IF previous_header = Crash
           THEN /\ pc' = "crashed"
                /\ UNCHANGED <<requested_header, pending, asked>>
           ELSE IF previous_header = None \/ ~Connects(previous_header, header)
           THEN \* request_header(interface, height - 1)
                /\ pending' = [pending EXCEPT ![cur] = header.block_height - 1]
                /\ asked' = Append(asked, <<cur, header.block_height - 1>>)
                /\ requested_header' = TRUE
                /\ pc' = "get_chain"
           ELSE /\ pc' = "verify"
                /\ requested_header' = FALSE
                /\ UNCHANGED <<pending, asked>>

\* line 117, "while self.is_running()", and the branch on requested_header
GetChain ==
    /\ pc = "get_chain"
    /\ IF ~running
       THEN \* get_chain returns None; run: "if not chain: continue"
            /\ pc' = "loop"
            /\ last' = "aborted"
            /\ UNCHANGED <<chain, requested_header, pending, asked>>
       ELSE IF requested_header
       THEN /\ pc' = "retrieve"
            /\ UNCHANGED <<chain, requested_header, pending, asked, last>>
       ELSE /\ Connect(chain)
            /\ UNCHANGED last
    /\ UNCHANGED <<file, height, local_height, running, scanIdx, cur, ci, vq, gq,
                   tip, menu, tick, file0, height0, flagged>>

(***************************************************************************)
(* retrieve_header: one get_response('get_header', timeout=1) per step;    *)
(* a timed-out poll prints and polls again.                                *)
(***************************************************************************)
RetrieveTimeout ==
    /\ pc = "retrieve"
    /\ gq[cur] = <<>>
    /\ tick' = 1 - tick
    /\ UNCHANGED <<file, height, local_height, running, pc, scanIdx, cur, chain,
                   requested_header, ci, vq, gq, pending, tip, menu, file0, height0, last, asked,
                   flagged>>

Retrieve ==
    /\ pc = "retrieve"
    /\ gq[cur] # <<>>
    /\ gq' = [gq EXCEPT ![cur] = Tail(@)]
    /\ LET r == Head(gq[cur])
       IN  IF r.error \/ r.method # GetHeaderMethod
           THEN UNCHANGED <<pc, chain, requested_header, pending, asked, last>>
           ELSE IF r.result = None
           THEN \* "if not header: return"
                /\ pc' = "loop"
                /\ last' = "aborted"
                /\ UNCHANGED <<chain, requested_header, pending, asked>>
           ELSE /\ Connect(<<r.result>> \o chain)
                /\ UNCHANGED last
    /\ UNCHANGED <<file, height, local_height, running, scanIdx, cur, ci, vq, tip, menu,
                   tick, file0, height0, flagged>>

(***************************************************************************)
(* run, lines 382-388: verify_chain, then the commit loop or the error     *)
(***************************************************************************)
Verify ==
    /\ pc = "verify"
    /\ LET v == verify_chain(file, chain)
       IN  /\ pc' = IF v = "ok" THEN "commit" ELSE IF v = "fail" THEN "loop" ELSE "crashed"
           /\ last' = IF v = "fail" THEN "rejected" ELSE last
           /\ flagged' = IF v = "fail" THEN flagged \cup {cur} ELSE flagged
    /\ ci' = 1
    /\ UNCHANGED <<file, height, local_height, running, scanIdx, cur, chain,
                   requested_header, vq, gq, pending, tip, menu, tick, file0, height0, asked>>

\* a commit that writes the announced tip only
CommitLastOnly ==
    /\ pc = "commit"
    /\ file' = save_header(file, chain[Len(chain)])
    /\ local_height' = set_local_height(file', local_height, height).local_height
    /\ height' = tip.block_height
    /\ pc' = "loop"
    /\ last' = "committed"
    /\ ci' = 1
    /\ UNCHANGED <<running, scanIdx, cur, chain, requested_header, vq, gq, pending,
                   tip, menu, tick, file0, height0, asked, flagged>>

\* one turn of "for header in chain": save_header(header); self.height = height
Commit ==
    /\ pc = "commit"
    /\ file' = save_header(file, chain[ci])
    /\ local_height' = set_local_height(file', local_height, height).local_height
    /\ height' = tip.block_height
    /\ IF ci = Len(chain)
       THEN pc' = "loop" /\ last' = "committed" /\ ci' = 1
       ELSE pc' = "commit" /\ last' = last /\ ci' = ci + 1
    /\ UNCHANGED <<running, scanIdx, cur, chain, requested_header, vq, gq, pending,
                   tip, menu, tick, file0, height0, asked, flagged>>

Next ==
    \/ \E c \in Chunks, extra \in 0..MaxExtra : VerifyChunk(c[1], c[2], extra)
    \/ \E downloaded \in BOOLEAN : Start(downloaded)
    \/ Stop
    \/ \E i \in Peers : \E r \in TipRecords(i) : Notify(i, r)
    \/ \E i \in Peers : \E r \in AnswerRecords(i, pending[i]) : Answer(i, r)
    \/ RunLoop
    \/ ScanCheck
    \/ Poll
    \/ GetChain
    \/ RetrieveTimeout
    \/ Retrieve
    \/ Verify
    \/ Commit

Spec == Init /\ [][Next]_vars

SpecEpoch == InitEpoch /\ [][Next]_vars

SpecTarget == InitTarget /\ [][Next]_vars
SpecCompact == InitCompact /\ [][Next]_vars

SpecBoundary == InitBoundary /\ [][Next]_vars

\* the thread of run() takes its next step as long as it has one, and a
\* peer that follows branch A answers what it was asked; nothing is
\* assumed of the adversary or of the caller of stop().  The step out of
\* verify_chain, which is enabled exactly when pc = "verify" and always
\* leaves it, has its fairness stated on pc.
VerifierStep ==
    RunLoop \/ ScanCheck \/ Poll \/ GetChain \/ RetrieveTimeout \/ Retrieve \/ Commit

VerifyReturns == []<>(pc # "verify")

HonestAnswer ==
    \E i \in Peers \ {Adversary} : \E r \in AnswerRecords(i, pending[i]) : Answer(i, r)

\* a store of branch A with tip 1, the next header of branch A and the
\* two headers of branch B that compete with the store
InitStall ==
    InitWith({StoreOf(<<Genesis, A1>>)}, {At(A2, 2), At(B1, 1), At(B2, 2)})

FairSpec ==
    /\ InitStall
    /\ [][Next]_vars
    /\ WF_vars(VerifierStep)
    /\ WF_vars(HonestAnswer)
    /\ VerifyReturns

(***************************************************************************)
(* Properties                                                              *)
(***************************************************************************)
\* the handling of the event taken from the queue has just ended
Handled == pc = "loop" /\ last # "none"

\* invariant 2 of the data model: every stored header names its predecessor
LinkRule(f) ==
    \A h \in 1..(Len(f.recs) - 1) :
        f.recs[h + 1].prev_block_hash = hash_header(f.recs[h])

\* C1: after every completed commit by the run loop on a store that
\* satisfied the link rule, every stored height h > 0 has
\* header[h].prev_block_hash = hash(header[h-1]).
C1_LinkRuleKept ==
    (Handled /\ last = "committed" /\ LinkRule(file0)) => LinkRule(file)

\* the three checks of a header against its predecessor and the store f
PassesChecks(f, prev, header) ==
    LET t == get_target(f, header.block_height \div EpochLen)
    IN  /\ prev # None
        /\ prev # Crash
        /\ t # Crash
        /\ header.prev_block_hash = hash_header(prev)
        /\ header.bits = t.bits
        /\ BnLess(HashInt(hash_header(header)), t.target)

AllPass(f, ch) ==
    \A k \in 1..Len(ch) :
        PassesChecks(f, IF k = 1 THEN read_header(f, ch[1].block_height - 1)
                        ELSE ch[k - 1], ch[k])

\* C2: a chain with an element that fails one of the three checks (link,
\* bits, hash strictly below target) is discarded and leaves the file as it
\* was before the event; the run loop writes only while committing a chain
\* all of whose elements passed.
C2_RejectedChainLeavesStore ==
    /\ (pc = "commit" \/ (Handled /\ last = "committed")) => AllPass(file0, chain)
    /\ (Handled /\ last = "rejected") => (file = file0 /\ ~AllPass(file0, chain))
    /\ (pc \notin {"start", "commit"} /\ ~(Handled /\ last = "committed")) => file = file0

\* a chain was rejected whose last header has a digest equal to the target
C2_Witness ==
    /\ Handled
    /\ last = "rejected"
    /\ file = file0
    /\ HashInt(hash_header(chain[Len(chain)])) = max_target

\* C3: during a commit the exposed tip height is at most
\* floor(filesize/80) - 1: it moves only after the last header is written.
C3_NoPartialView ==
    pc = "commit" => height <= (FileSize(file) \div HeaderSize) - 1

\* the bits rule of the data model: every stored header carries the bits
\* that get_target gives for its epoch on the store f itself
BitsRule(f) ==
    \A e \in 0..((Len(f.recs) - 1) \div EpochLen) :
        LET t == get_target(f, e)
        IN  /\ t # Crash
            /\ \A h \in (e * EpochLen)..Min((e + 1) * EpochLen - 1, Len(f.recs) - 1) :
                   f.recs[h + 1].bits = t.bits

\* C4: after every completed commit on a store that satisfied the bits
\* rule, every stored height h has header[h].bits equal to the expected
\* bits of epoch floor(h/2016) recomputed from the store's current
\* contents, also when the committed chain overwrote the last header of an
\* epoch.
C4_BitsRuleKept ==
    (Handled /\ last = "committed" /\ BitsRule(file0)) => BitsRule(file)

\* C5: the file length stays a multiple of 80 (every file a start can find
\* has such a length).
C5_WholeRecords == FileSize(file) % HeaderSize = 0

\* the local tip height of a file
TipOf(f) == (FileSize(f) \div HeaderSize) - 1

\* C6: a tip notification whose block_height is at most the local tip
\* height is ignored: no extension starts, no get_header request is sent,
\* the file and the exposed tip height stay as they were.
C6_LowTipIgnored ==
    (pc \notin {"start", "scan"} /\ tip # None /\ tip.block_height <= TipOf(file0))
        => /\ Handled
           /\ last = "ignored"
           /\ asked = <<>>
           /\ file = file0
           /\ height = height0
           /\ local_height = TipOf(file0)

\* a tip at exactly the local tip height was ignored
C6_Witness ==
    /\ Handled
    /\ last = "ignored"
    /\ tip.block_height = TipOf(file0)
    /\ file = file0

\* scenario S5: branch A stored at heights 1 and 2
S5Store(f) == f.exists /\ f.tail = 0 /\ f.recs = <<Genesis, A1, A2>>

\* C7 as stated: with A1, A2 stored (tip 2), the announcement of B2 at
\* height 2 makes the extender ask the same peer for the parent at height 1.
C7_EqualHeightReorg ==
    (Handled /\ S5Store(file0) /\ tip = At(B2, 2))
        => (asked # <<>> /\ asked[1] = <<cur, 1>>)

\* C7 amended: with A1, A2 stored (tip 2) and the engine running, the
\* announcement of B3 at height 3 makes the extender ask the same peer for
\* the parents at heights 2 and then 1; once the peer has returned B2 and
\* B1 the chain passes validation and heights 1..3 hold branch B, with
\* tip height 3.
C7_ReorgAboveTip ==
    (running /\ S5Store(file0) /\ tip = At(B3, 3) /\ pc \notin {"start", "scan"})
        => /\ (pc # "get_chain" \/ requested_header)
                => (asked # <<>> /\ asked[1] = <<cur, 2>>)
           /\ (Len(chain) >= 2 /\ chain[Len(chain) - 1] = At(B2, 2)
                   /\ (pc # "get_chain" \/ requested_header))
                => (Len(asked) >= 2 /\ asked[2] = <<cur, 1>>)
           /\ (Handled /\ chain = <<At(B1, 1), At(B2, 2), At(B3, 3)>>)
                => /\ last = "committed"
                   /\ file.recs = <<Genesis, B1, B2, B3>>
                   /\ height = 3
                   /\ local_height = 3

C7_Witness ==
    /\ Handled
    /\ running
    /\ S5Store(file0)
    /\ tip = At(B3, 3)
    /\ last = "committed"
    /\ asked = <<<<cur, 2>>, <<cur, 1>>>>
    /\ file.recs = <<Genesis, B1, B2, B3>>

\* a header at height T+1 that links to the stored tip at T and passes the
\* bits and proof-of-work checks
DirectExtension(f, header) ==
    /\ f.exists
    /\ TipOf(f) >= 0
    /\ header.block_height = TipOf(f) + 1
    /\ PassesChecks(f, read_header(f, TipOf(f)), header)

\* C8: a direct extension announced while the engine runs is committed
\* without any get_header request; the tip height becomes T+1 and the file
\* grows by exactly 80 bytes.
C8_DirectExtension ==
    (Handled /\ running /\ DirectExtension(file0, tip))
        => /\ last = "committed"
           /\ asked = <<>>
           /\ height = TipOf(file0) + 1
           /\ local_height = TipOf(file0) + 1
           /\ read_header(file, TipOf(file0) + 1) = header_from_string(header_to_string(tip))
           /\ FileSize(file) = FileSize(file0) + HeaderSize

\* C9: once a peer's chain has failed validation, no tip notification of
\* that peer is returned to the extender.
C9_FlaggedPeerSkipped ==
    pc \in {"get_chain", "retrieve", "verify"} => cur \notin flagged

\* C10: a peer that does not answer a get_header request cannot stall the
\* verifier: while the engine runs, a direct extension of the store that a
\* peer following branch A has in its queue while the verifier waits for
\* the adversary's answer is eventually taken from that queue.
C10_HonestTipTaken ==
    \A i \in Peers \ {Adversary} :
        (/\ running
         /\ pc = "retrieve"
         /\ cur = Adversary
         /\ vq[i] # <<>>
         /\ vq[i][1].result # None
         /\ DirectExtension(file, vq[i][1].result))
            ~> (~running \/ vq[i] = <<>>)

\* C11: after stop() the thread of run() reaches its end within a bounded
\* number of polls, from every state in which it was alive, and ends by
\* leaving its loop ("stopped"), not by an unhandled error.
C11_StopTerminates ==
    (~running /\ pc \notin {"start", "crashed"}) ~> (pc = "stopped")

\* a header stands for more work than another when its target is lower
MoreWork(a, b) == BnLess(bits_to_target(a.bits), bits_to_target(b.bits))

\* the tip just handled is on the chain of most work among the inputs: no
\* input is higher and every other input of its height stands for less work
MostWork(t) ==
    \A m \in menu :
        /\ m.block_height <= t.block_height
        /\ (m.block_height = t.block_height /\ m # t) => MoreWork(t, m)

\* C12: once the tip of the chain of most work has been handled, its peer
\* having answered the parent request with that chain's header, and no
\* event is left in a queue, the hash of the stored tip is the hash of that
\* tip.
C12_Converges ==
    (/\ Handled
     /\ tip # None
     /\ MostWork(tip)
     /\ chain = <<At(B(EpochLen - 2, EpochLen - 1), EpochLen - 1), tip>>
     /\ tip = At(BOwn(EpochLen), EpochLen)
     /\ \A i \in Peers : vq[i] = <<>>)
        => hash_header(read_header(file, TipOf(file))) = hash_header(tip)

\* the file after the headers of ch are written one after the other, each
\* at 80 times its block_height
RECURSIVE Replay(_, _)
Replay(f, ch) ==
    IF ch = <<>> THEN f
    ELSE Replay(WriteAt(f, Head(ch).block_height,
                        <<[version |-> Head(ch).version,
                           prev_block_hash |-> Head(ch).prev_block_hash,
                           merkle_root |-> Head(ch).merkle_root,
                           timestamp |-> Head(ch).timestamp,
                           bits |-> Head(ch).bits,
                           nonce |-> Head(ch).nonce]>>, 0),
                Tail(ch))

C14_TipMatchesFile ==
    pc # "commit" => height = (IF file.exists THEN TipOf(file) ELSE 0 - 1)

\* C15: the codec round-trips a header with all its fields, block_height
\* included: the header read back at the height at which a commit has just
\* written the announced header is that header.
C15_ReadBackEqualsWritten ==
    (Handled /\ last = "committed")
        => /\ header_from_string(header_to_string(tip)) = tip
           /\ read_header(file, tip.block_height) = tip

\* last.timestamp - first.timestamp of epoch 0 of the store f
Timespan0(f) == f.recs[EpochLen].timestamp - f.recs[1].timestamp

\* bits_to_target(last.bits) * clamp(span, 302400, 4838400)
ClampedProduct(f) ==
    BnMulSmall(bits_to_target(f.recs[EpochLen].bits),
               Max(302400, Min(4838400, Timespan0(f))))

\* C16: get_target(0) is (0x1d00ffff, max_target); with the headers of
\* epoch 0 stored, the target of epoch 1 is min(max_target, q) where q is
\* the truncated quotient of bits_to_target(last.bits) * clamp(last.timestamp
\* - first.timestamp, 302400, 4838400) by 1209600, so it never exceeds
\* max_target; with last.bits = 0x1d00ffff and a timespan of at least
\* 1209600 the result is (0x1d00ffff, max_target) again.
C16_ExpectedTarget ==
    /\ get_target(file, 0) = [bits |-> GenesisBits, target |-> max_target]
    /\ (file.exists /\ Len(file.recs) >= EpochLen)
          => LET t == get_target(file, 1)
                 p == ClampedProduct(file)
             IN  /\ t # Crash
                 /\ ~BnLess(max_target, t.target)
                 /\ IF BnLess(p, BnMulSmall(max_target, 1209600))
                    THEN /\ ~BnLess(p, BnMulSmall(t.target, 1209600))
                         /\ BnLess(p, BnMulSmall(BnInc(t.target), 1209600))
                    ELSE t.target = max_target
                 /\ (file.recs[EpochLen].bits = GenesisBits /\ Timespan0(file) >= 1209600)
                       => t = [bits |-> GenesisBits, target |-> max_target]

\* verify_chain has taken the bits of epoch 1 from get_target on a store
\* whose epoch 0 took more than four times the target timespan: it accepted
\* a header of height 2016 that carries 0x1d00ffff
C16_Witness ==
    /\ pc = "commit"
    /\ Timespan0(file0) > 4838400
    /\ file0.recs[EpochLen].bits = GenesisBits
    /\ chain = <<At(T1, EpochLen)>>

\* C17: every header prepended during a walk-back has the block_height
\* that was asked for, so the chain is contiguous in height and ends with
\* the announced header.
C17_ChainContiguous ==
    /\ \A k \in 1..(Len(chain) - 1) :
          chain[k + 1].block_height = chain[k].block_height + 1
    /\ (chain # <<>> /\ Len(asked) >= Len(chain) - 1)
          => /\ chain[Len(chain)] = tip
             /\ \A k \in 1..(Len(chain) - 1) :
                   asked[Len(chain) - k] = <<cur, chain[k].block_height>>

\* the store is rooted at the genesis header
Rooted(f) == f.exists /\ Len(f.recs) >= 1 /\ f.recs[1] = Genesis

\* every answer had the height asked for
Contiguous(ch) ==
    \A k \in 1..(Len(ch) - 1) : ch[k + 1].block_height = ch[k].block_height + 1

\* C18: on a store rooted at genesis, with a peer whose answers have the
\* heights asked for, the walk-back never reads a height below 0: when the
\* peer's chain disagrees with the store down to height 0 the attempt is
\* given up and the thread goes on.
C18_WalkBackAborts ==
    (Rooted(file0) /\ chain # <<>> /\ Contiguous(chain))
        => /\ pc # "crashed"
           /\ (pc \in {"get_chain", "retrieve"} /\ ~requested_header)
                 => chain[1].block_height >= 1

\* C19: verify_chain gives a verdict on every assembled chain: the thread
\* leaves it to commit the chain or to drop it, also when the chain holds
\* the last header of an epoch and the first of the next while the store
\* ends below them.
C19_VerifyGivesVerdict ==
    [][pc = "verify" => pc' \in {"verify", "commit", "loop"}]_vars

\* C20: on the empty store that a failed download leaves, the thread
\* survives the walk-back of a tip of a peer that follows branch A and
\* serves every ancestor down to the genesis header, so that the chain from
\* height 0 can be validated and committed.
C20_BootstrapSurvives ==
    (/\ file0 = StoreOf(<<>>)
     /\ cur # Adversary
     /\ tip # None
     /\ chain # <<>>
     /\ Contiguous(chain))
        => pc # "crashed"

\* C21: the bits of a retarget are canonical: the mantissa new_bits mod
\* 2^24 never has bit 0x800000 set, and bits_to_target(new_bits) is
\* new_target cut down to the bytes of the mantissa (it is at most
\* new_target, and one more in the mantissa is above new_target).
C21_CanonicalBits ==
    (file.exists /\ Len(file.recs) >= EpochLen)
        => LET t == get_target(file, 1)
           IN  t # Crash
                 => /\ (t.bits % MM) < SignLimit
                    /\ ~BnLess(t.target, bits_to_target(t.bits))
                    /\ BnLess(t.target, bits_to_target(t.bits + 1))

\* C22: get_new_response is fair over the interfaces: while the engine
\* runs and the thread keeps calling it (it is not held in retrieve_header
\* and has not ended), a tip notification waiting in any peer's verifier
\* queue is eventually taken from that queue, whatever the peers earlier in
\* the list enqueue; and a queued record without a result is consumed and
\* the scan goes on with the next interface.
C22_RoundRobinFair ==
    /\ \A i \in Peers :
          (running /\ pc = "scan" /\ vq[i] # <<>> /\ vq[i][1].result # None)
              ~> (vq[i] = <<>> \/ ~running \/ pc \in {"retrieve", "crashed", "stopped"})
    /\ [][(/\ pc = "scan" /\ scanIdx \in Peers /\ vq[scanIdx] # <<>>
           /\ vq[scanIdx][1].result = None /\ vq'[scanIdx] # vq[scanIdx])
             => (pc' = "scan" /\ scanIdx' = NextIdx(scanIdx)
                 /\ vq'[scanIdx] = Tail(vq[scanIdx]))]_vars

\* C23: headers are never deleted.  Once the thread is started, no step
\* makes the file shorter or the local tip height lower; every write of the
\* commit loop goes to a height from the connection point + 1 up to the old
\* tip + 1, or above that only directly after the height written before it;
\* and a commit that overwrites stored heights ends with a tip strictly
\* above the tip it started from.
C23_NeverDeleted ==
    [][pc # "start"
         => /\ FileSize(file') >= FileSize(file)
            /\ local_height' >= local_height
            /\ (pc = "commit" /\ file' # file)
                 => LET h == chain[ci].block_height
                    IN  /\ h >= chain[1].block_height
                        /\ \/ h <= TipOf(file0) + 1
                           \/ ci > 1 /\ h = chain[ci - 1].block_height + 1
            /\ (pc = "commit" /\ pc' = "loop" /\ chain[1].block_height <= TipOf(file0))
                 => TipOf(file') > TipOf(file0)]_vars

====
